---------------------------- MODULE Spec2Model ----------------------------
(***************************************************************************)
(* Unary node operators of the expression graph                            *)
(* (src/graph/node_operators_unary.h): the nodes' forward and backward     *)
(* steps, the zero-copy view nodes and the dropout node's lazily prepared  *)
(* state, over tensors that live in device buffers.                        *)
(***************************************************************************)
EXTENDS Integers, Sequences, FiniteSets, TLC

(***************************************************************************)
(* Bounds of the model.                                                    *)
(***************************************************************************)
\* largest element count of a leaf tensor
MaxElems == 4
\* largest timestep index a caller passes
MaxStep == 2
\* longest row-index list of a row gather
MaxIdxLen == 2
\* largest number of forward(), inference() and backward() calls on one
\* dropout node
MaxCalls == 3
\* largest element count of the matrix fed to a chain of two nodes
MaxChainElems == 6
\* largest element count of a matrix that feeds two parents
MaxDagElems == 2

(***************************************************************************)
(* Numbers.  A float is modelled as an exact fraction <<n, d>> in lowest   *)
(* terms with d >= 0; <<1,0>> and <<-1,0>> are the infinities and <<0,0>>  *)
(* is NaN, so that 1.f / 0 and inf * 0 are values and not errors.          *)
(* Rounding is not modelled.                                               *)
(***************************************************************************)
Abs(a) == IF a < 0 THEN -a ELSE a

Sgn(a) == IF a < 0 THEN -1 ELSE IF a = 0 THEN 0 ELSE 1

RECURSIVE GCD(_, _)
GCD(a, b) == IF b = 0 THEN a ELSE GCD(b, a % b)

Rat(n, d) ==
  LET g == GCD(Abs(n), Abs(d))
  IN  IF g = 0 THEN <<0, 0>>
      ELSE IF d < 0 THEN <<(0 - n) \div g, (0 - d) \div g>>
      ELSE <<n \div g, d \div g>>

Num(k) == <<k, 1>>

Zero == Num(0)

One == Num(1)

RAdd(a, b) ==
  IF a[2] = 0 /\ b[2] = 0
  THEN (IF a = b THEN a ELSE <<0, 0>>)
  ELSE Rat(a[1] * b[2] + b[1] * a[2], a[2] * b[2])

RMul(a, b) == Rat(a[1] * b[1], a[2] * b[2])

RNeg(a) == <<0 - a[1], a[2]>>

RSub(a, b) == RAdd(a, RNeg(b))

\* 1.f / a
RInv(a) == IF a[1] < 0 THEN <<0 - a[2], 0 - a[1]>> ELSE <<a[2], a[1]>>

RDiv(a, b) == RMul(a, RInv(b))

\* a > 0 (false for NaN)
RPos(a) == a[1] > 0

RECURSIVE RSumSeq(_)
RSumSeq(s) == IF s = <<>> THEN Zero ELSE RAdd(Head(s), RSumSeq(Tail(s)))

(***************************************************************************)
(* Shapes: four axis sizes; axis ax of the code is component ax + 1.       *)
(***************************************************************************)
Elements(s) == s[1] * s[2] * s[3] * s[4]

ShapeSet(s, ax, v) == [s EXCEPT ![ax + 1] = v]

\* the coordinates of linear element e (from 0): axes 0 and 1 form a
\* row-major matrix, axes 2 and 3 count whole matrices
Coord(e, s) ==
  << (e \div s[2]) % s[1],
     e % s[2],
     (e \div (s[1] * s[2])) % s[3],
     e \div (s[1] * s[2] * s[3]) >>

Linear(c, s) == ((c[4] * s[3] + c[3]) * s[1] + c[1]) * s[2] + c[2]

\* the element of a tensor of shape small that element e of shape big
\* reads or feeds under broadcasting (an axis of size 1 is repeated)
Proj(e, big, small) ==
  LET c == Coord(e, big)
  IN  Linear([a \in 1..4 |-> c[a] % small[a]], small)

\* the smallest shape both broadcast to
MaxShape(s, t) == [a \in 1..4 |-> IF s[a] > t[a] THEN s[a] ELSE t[a]]


(***************************************************************************)
(* State.                                                                  *)
(*   nodes  the graph: node id -> the node's fields                        *)
(*   store  device memory: buffer id -> its contents and whether it is     *)
(*          still allocated                                                *)
(*   err    "none", or the error that ended the process                    *)
(*   hist   what the last step was, with the counters the destructor and   *)
(*          the dropout preparation leave behind                           *)
(***************************************************************************)
VARIABLES nodes, store, err, hist

vars == <<nodes, store, err, hist>>

NodeIds == 0..2

\* buffers 1..6 are the value and gradient buffers of nodes 0..2; 7 and 8
\* are the blocks a reallocation of the leaf moves to
BufIds == 1..8

ValBuf(n) == 2 * n + 1

AdjBuf(n) == 2 * n + 2

\* a Tensor: a data pointer (buffer and element offset) with a shape
TensorGPU(b, o, s) == [buf |-> b, off |-> o, shape |-> s]

\* a null Tensor pointer
NoTensor == TensorGPU(0, 0, <<0, 0, 0, 0>>)

NoBuffer == [data |-> <<>>, live |-> FALSE]

Filled(n, v) == [i \in 1..n |-> v]

Buffer(d) == [data |-> d, live |-> TRUE]

\* values an access outside a live buffer can produce
Garbage == {Zero, Num(7)}

InBounds(st, h) ==
  /\ h.buf \in BufIds
  /\ st[h.buf].live
  /\ h.off + Elements(h.shape) <= Len(st[h.buf].data)

CellOk(st, h, i) ==
  /\ h.buf \in BufIds
  /\ st[h.buf].live
  /\ h.off + i <= Len(st[h.buf].data)

\* the possible results of reading tensor h: its elements, where a cell
\* outside the live buffer reads as some garbage value
Reads(st, h) ==
  IF InBounds(st, h)
  THEN {[i \in 1..Elements(h.shape) |-> st[h.buf].data[h.off + i]]}
  ELSE {[i \in 1..Elements(h.shape) |->
            IF CellOk(st, h, i) THEN st[h.buf].data[h.off + i] ELSE g]
          : g \in Garbage}

\* the elements of an in-bounds tensor
Read(st, h) == [i \in 1..Elements(h.shape) |-> st[h.buf].data[h.off + i]]

\* memory after writing d through tensor h; a cell outside the live buffer
\* lands in memory the model does not hold
WriteT(st, h, d) ==
  IF h.buf \notin BufIds \/ ~st[h.buf].live THEN st
  ELSE [st EXCEPT ![h.buf].data =
          [j \in 1..Len(st[h.buf].data) |->
             IF j > h.off /\ j - h.off <= Len(d)
             THEN d[j - h.off] ELSE st[h.buf].data[j]]]

(***************************************************************************)
(* Node (graph/node.h, not part of the source tree): the fields every      *)
(* node has.  pc is the node's place in its lifecycle: "none" (no such     *)
(* node), "constructed", "valued", "done" (backward has run), "released".  *)
(***************************************************************************)
NoNode ==
  [kind |-> "none", child |-> 0, shape |-> <<0, 0, 0, 0>>, axis |-> -1,
   indeces_ |-> <<>>, step_ |-> 0, val_ |-> NoTensor, adj_ |-> NoTensor,
   pc |-> "none", allocated_ |-> FALSE, space_ |-> <<>>, trainable |-> TRUE]

\* a node that owns its value and gradient buffers
OwningNode(n, kind, child, shape) ==
  [NoNode EXCEPT !.kind = kind, !.child = child, !.shape = shape,
                 !.val_ = TensorGPU(ValBuf(n), 0, shape),
                 !.adj_ = TensorGPU(AdjBuf(n), 0, shape),
                 !.pc = "constructed"]

\* UnaryNodeOp(a, args...): one child; the shape is the child's unless a
\* shape keyword is given
UnaryNodeOp(ns, n, kind, a) == OwningNode(n, kind, a, ns[a].shape)

IsView(nd) == nd.kind \in {"reshape", "step"}

Parents(ns, n) == {p \in NodeIds : ns[p].kind # "none" /\ ns[p].child = n /\ p # n}

\* the forward walk reaches n: it is constructed and its child has a value
CanForward(n, kind) ==
  /\ err = "none"
  /\ nodes[n].kind = kind
  /\ nodes[n].pc = "constructed"
  /\ nodes[nodes[n].child].pc \in {"valued", "done"}

\* the backward walk reaches n: every parent has added its contribution
CanBackward(n, kind) ==
  /\ err = "none"
  /\ nodes[n].kind = kind
  /\ nodes[n].pc = "valued"
  /\ \A p \in Parents(nodes, n) : nodes[p].pc = "done"

\* the history after step op of node n (what a caller read is forgotten)
Step(op, n) == [hist EXCEPT !.op = op, !.node = n, !.seen = <<>>]

(***************************************************************************)
(* The view nodes' accessors.  val() and grad() build a fresh Tensor over  *)
(* the child's current data pointer each time they are called and keep it  *)
(* in val_ / adj_.                                                         *)
(***************************************************************************)
ReshapeNodeOp_val(ns, n) ==
  LET c == ns[ns[n].child].val_
  IN  TensorGPU(c.buf, c.off, ns[n].shape)

ReshapeNodeOp_grad(ns, n) ==
  LET c == ns[ns[n].child].adj_
  IN  TensorGPU(c.buf, c.off, ns[n].shape)

\* mutant: the Tensor built by the first access is kept and handed out again
TimestepNodeOp_val_cached(ns, n) ==
  LET c == ns[ns[n].child].val_
      offset == ns[n].step_ * Elements(ns[n].shape)
  IN  IF ns[n].val_ # NoTensor THEN ns[n].val_
      ELSE TensorGPU(c.buf, c.off + offset, ns[n].shape)

TimestepNodeOp_val(ns, n) ==
  LET c == ns[ns[n].child].val_
      offset == ns[n].step_ * Elements(ns[n].shape)
  IN  TensorGPU(c.buf, c.off + offset, ns[n].shape)

TimestepNodeOp_grad(ns, n) ==
  LET c == ns[ns[n].child].adj_
      offset == ns[n].step_ * Elements(ns[n].shape)
  IN  TensorGPU(c.buf, c.off + offset, ns[n].shape)

\* children_[0]->val(): the virtual call, and the graph after it
Val(ns, n) ==
  IF ns[n].kind = "reshape" THEN ReshapeNodeOp_val(ns, n)
  ELSE IF ns[n].kind = "step" THEN TimestepNodeOp_val(ns, n)
  ELSE ns[n].val_

AfterVal(ns, n) == [ns EXCEPT ![n].val_ = Val(ns, n)]

\* children_[0]->grad()
Grad(ns, n) ==
  IF ns[n].kind = "reshape" THEN ReshapeNodeOp_grad(ns, n)
  ELSE IF ns[n].kind = "step" THEN TimestepNodeOp_grad(ns, n)
  ELSE ns[n].adj_

AfterGrad(ns, n) == [ns EXCEPT ![n].adj_ = Grad(ns, n)]

(***************************************************************************)
(* Kernel library (kernels/tensor_operators.h and thrust_functions.h, not  *)
(* part of the source tree), by its contracts.  The transcendental         *)
(* functors are stand-ins with exact fractions as results: no property     *)
(* below depends on their values.                                          *)
(***************************************************************************)
Sigma(x) == IF x[1] < 0 THEN Rat(1, 4) ELSE IF x[1] = 0 THEN Rat(1, 2) ELSE Rat(3, 4)

Tanh(x) == Rat(Sgn(x[1]), 2)

Exp(x) == IF x[1] < 0 THEN Rat(1, 2) ELSE IF x[1] = 0 THEN One ELSE Num(2)

Log(x) == IF RPos(RSub(x, One)) THEN One ELSE IF x = One THEN Zero ELSE Num(-1)

ReLU(x) == IF RPos(x) THEN x ELSE Zero

ReLUback(x) == IF RPos(x) THEN One ELSE Zero

\* out = d: memory after an assigning kernel wrote d through out
Assign(st, out, d) == WriteT(st, out, d)

\* out += d: memory after an accumulating kernel added d through out
Accumulate(st, out, d) ==
  IF out.buf \notin BufIds \/ ~st[out.buf].live THEN st
  ELSE [st EXCEPT ![out.buf].data =
          [j \in 1..Len(st[out.buf].data) |->
             IF j > out.off /\ j - out.off <= Len(d)
             THEN RAdd(st[out.buf].data[j], d[j - out.off])
             ELSE st[out.buf].data[j]]]

\* what Add(functor, out, in...) adds to out, given the functor's results d
\* over shape ds: each element of out receives the sum of the elements of
\* the common shape that fall on it, d being broadcast where it is smaller
AddData(d, ds, outs) ==
  LET full == MaxShape(ds, outs)
  IN  [o \in 1..Elements(outs) |->
         RSumSeq([e \in 1..Elements(full) |->
                    IF Proj(e - 1, full, outs) = o - 1
                    THEN d[Proj(e - 1, full, ds) + 1] ELSE Zero])]

\* Reduce(functor, out, in): out = the functor's results summed over the
\* axes on which out has size 1
ReduceData(d, ds, outs) == AddData(d, ds, outs)

\* Transpose(handle, out, in): out = in with axes 0 and 1 swapped
TransposeData(d, ds) ==
  LET outs == <<ds[2], ds[1], ds[3], ds[4]>>
  IN  [o \in 1..Elements(outs) |->
         LET c == Coord(o - 1, outs)
         IN  d[Linear(<<c[2], c[1], c[3], c[4]>>, ds) + 1]]

RowOf(e, s) == e \div s[2]

ColOf(e, s) == e % s[2]

\* the rows a row-index list may name for a child of shape s
RowsInRange(idx, s) == \A i \in 1..Len(idx) : idx[i] < s[1]

\* CopyRows(out, in, indeces): out row i = in row indeces[i]; a row outside
\* in reads whatever lies there
CopyRowsData(x, xs, idx, g) ==
  [o \in 1..(Len(idx) * xs[2]) |->
     LET r == idx[RowOf(o - 1, xs) + 1]
     IN  IF r < xs[1] THEN x[r * xs[2] + ColOf(o - 1, xs) + 1] ELSE g]

\* PasteRows(out, in, indeces): out row indeces[i] += in row i; what this
\* adds to each element of out (a row outside out lands elsewhere)
PasteRowsData(adj, xs, idx) ==
  [e \in 1..(xs[1] * xs[2]) |->
     RSumSeq([i \in 1..Len(idx) |->
                IF idx[i] = RowOf(e - 1, xs)
                THEN adj[(i - 1) * xs[2] + ColOf(e - 1, xs) + 1] ELSE Zero])]

RowSum(d, s, r) ==
  RSumSeq([j \in 1..s[2] |-> d[r * s[2] + j]])

\* Softmax(out, in, mask): each row of the matrix normalised, the mask
\* (when given) multiplied in before normalisation
SoftmaxData(x, s) ==
  LET ex == [i \in 1..Len(x) |-> Exp(x[i])]
  IN  [i \in 1..Len(x) |-> RDiv(ex[i], RowSum(ex, s, RowOf(i - 1, s)))]

\* SoftmaxGrad(grad, adj, val): grad += val .* (adj - val' * adj) per row
SoftmaxGradData(adj, val, s) ==
  LET av == [i \in 1..Len(val) |-> RMul(adj[i], val[i])]
  IN  [i \in 1..Len(val) |->
         RMul(val[i], RSub(adj[i], RowSum(av, s, RowOf(i - 1, s))))]

LogSoftmaxData(x, s) ==
  LET sm == SoftmaxData(x, s)
  IN  [i \in 1..Len(x) |-> Log(sm[i])]

\* LogSoftmaxGrad(grad, adj, val): grad += adj - exp(val) * sum(adj) per row
LogSoftmaxGradData(adj, val, s) ==
  [i \in 1..Len(val) |->
     RSub(adj[i], RMul(Exp(val[i]), RowSum(adj, s, RowOf(i - 1, s))))]

\* the masks a dropout forward can draw for n elements
Masks(n) == [1..n -> {0, 1}]

\* CudnnDropoutForward: out = in .* mask / (1 - p), with p = 1/2
DropoutForwardData(x, mask) == [i \in 1..Len(x) |-> RMul(x[i], Num(2 * mask[i]))]

\* CudnnDropoutBackward: what reaches the child's gradient through the mask
\* of the last forward
DropoutBackwardData(adj, mask) ==
  [i \in 1..Len(adj) |-> RMul(adj[i], Num(2 * mask[i]))]

(***************************************************************************)
(* The steps of a node.  A forward step reads the child's value through    *)
(* children_[0]->val() and assigns the node's own value; a backward step   *)
(* reads adj_ (and val_, and the child's value where the functor names it) *)
(* and writes through children_[0]->grad().                                *)
(***************************************************************************)
\* what a read through children_[0]->val() can return
ChildVal(n) == Reads(store, Val(nodes, nodes[n].child))

\* the contents of adj_ and of val_
AdjOf(n) == Read(store, nodes[n].adj_)

ValOf(n) == Read(store, nodes[n].val_)

\* val_ = d, where d is computed from the child's value
ForwardAssign(n, d) ==
  LET c == nodes[n].child
  IN  /\ store' = Assign(store, nodes[n].val_, d)
      /\ nodes' = [AfterVal(nodes, c) EXCEPT ![n].pc = "valued"]
      /\ err' = err
      /\ hist' = Step("forward", n)

\* child grad += d, where d is computed from adj_ and val_
BackwardAccumulate(n, d) ==
  LET c == nodes[n].child
  IN  /\ store' = Accumulate(store, Grad(nodes, c), d)
      /\ nodes' = [AfterGrad(nodes, c) EXCEPT ![n].pc = "done"]
      /\ err' = err
      /\ hist' = Step("backward", n)

\* child grad += d, where d is computed from adj_ and the child's value
BackwardAccumulateX(n, d) ==
  LET c == nodes[n].child
  IN  /\ store' = Accumulate(store, Grad(nodes, c), d)
      /\ nodes' = [AfterGrad(AfterVal(nodes, c), c) EXCEPT ![n].pc = "done"]
      /\ err' = err
      /\ hist' = Step("backward", n)

\* child grad = d, where d is computed from adj_
BackwardAssign(n, d) ==
  LET c == nodes[n].child
  IN  /\ store' = Assign(store, Grad(nodes, c), d)
      /\ nodes' = [AfterGrad(nodes, c) EXCEPT ![n].pc = "done"]
      /\ err' = err
      /\ hist' = Step("backward", n)

(***************************************************************************)
(* LogitNodeOp                                                             *)
(***************************************************************************)
LogitNodeOp_forwardData(x) == [i \in 1..Len(x) |-> Sigma(x[i])]

\* _2 * _3 * (1.0f - _3)
LogitNodeOp_backwardData(adj, val) ==
  [i \in 1..Len(adj) |-> RMul(RMul(adj[i], val[i]), RSub(One, val[i]))]

LogitNodeOp_forwardOps(n) ==
  CanForward(n, "logit") /\ \E x \in ChildVal(n) : ForwardAssign(n,
        LogitNodeOp_forwardData(x))

LogitNodeOp_backwardOps(n) ==
  CanBackward(n, "logit") /\ BackwardAccumulate(n,
        LogitNodeOp_backwardData(AdjOf(n), ValOf(n)))

(***************************************************************************)
(* TanhNodeOp                                                              *)
(***************************************************************************)
TanhNodeOp_forwardData(x) == [i \in 1..Len(x) |-> Tanh(x[i])]

\* _2 * (1.0f - (_3 * _3))
TanhNodeOp_backwardData(adj, val) ==
  [i \in 1..Len(adj) |-> RMul(adj[i], RSub(One, RMul(val[i], val[i])))]

TanhNodeOp_forwardOps(n) ==
  CanForward(n, "tanh") /\ \E x \in ChildVal(n) : ForwardAssign(n,
        TanhNodeOp_forwardData(x))

TanhNodeOp_backwardOps(n) ==
  CanBackward(n, "tanh") /\ BackwardAccumulate(n,
        TanhNodeOp_backwardData(AdjOf(n), ValOf(n)))

(***************************************************************************)
(* ReLUNodeOp                                                              *)
(***************************************************************************)
ReLUNodeOp_forwardData(x) == [i \in 1..Len(x) |-> ReLU(x[i])]

\* mutant: the gradient also passes where the input is exactly 0
ReLUNodeOp_backwardData_atZero(adj, x) ==
  [i \in 1..Len(adj) |-> IF x[i][1] >= 0 THEN adj[i] ELSE Zero]

\* _2 * ReLUback(_3), _3 being the child's value
ReLUNodeOp_backwardData(adj, x) ==
  [i \in 1..Len(adj) |-> RMul(adj[i], ReLUback(x[i]))]

ReLUNodeOp_forwardOps(n) ==
  CanForward(n, "ReLU") /\ \E x \in ChildVal(n) : ForwardAssign(n,
        ReLUNodeOp_forwardData(x))

ReLUNodeOp_backwardOps(n) ==
  CanBackward(n, "ReLU") /\ \E x \in ChildVal(n) : BackwardAccumulateX(n,
        ReLUNodeOp_backwardData(AdjOf(n), x))

(***************************************************************************)
(* LogNodeOp, ExpNodeOp, NegNodeOp                                         *)
(***************************************************************************)
LogNodeOp_forwardData(x) == [i \in 1..Len(x) |-> Log(x[i])]

\* Add(_1 * (1.f / _2), grad, adj_, child value)
LogNodeOp_backwardData(adj, x) ==
  [i \in 1..Len(adj) |-> RMul(adj[i], RInv(x[i]))]

LogNodeOp_forwardOps(n) ==
  CanForward(n, "log") /\ \E x \in ChildVal(n) : ForwardAssign(n,
        LogNodeOp_forwardData(x))

LogNodeOp_backwardOps(n) ==
  CanBackward(n, "log") /\ \E x \in ChildVal(n) : BackwardAccumulateX(n,
        LogNodeOp_backwardData(AdjOf(n), x))

ExpNodeOp_forwardData(x) == [i \in 1..Len(x) |-> Exp(x[i])]

\* Add(_1 * Exp(_2), grad, adj_, child value)
ExpNodeOp_backwardData(adj, x) ==
  [i \in 1..Len(adj) |-> RMul(adj[i], Exp(x[i]))]

ExpNodeOp_forwardOps(n) ==
  CanForward(n, "exp") /\ \E x \in ChildVal(n) : ForwardAssign(n,
        ExpNodeOp_forwardData(x))

ExpNodeOp_backwardOps(n) ==
  CanBackward(n, "exp") /\ \E x \in ChildVal(n) : BackwardAccumulateX(n,
        ExpNodeOp_backwardData(AdjOf(n), x))

NegNodeOp_forwardData(x) == [i \in 1..Len(x) |-> RNeg(x[i])]

\* Add(-_1, grad, adj_)
NegNodeOp_backwardData(adj, val) == [i \in 1..Len(adj) |-> RNeg(adj[i])]

NegNodeOp_forwardOps(n) ==
  CanForward(n, "-") /\ \E x \in ChildVal(n) : ForwardAssign(n,
        NegNodeOp_forwardData(x))

NegNodeOp_backwardOps(n) ==
  CanBackward(n, "-") /\ BackwardAccumulate(n,
        NegNodeOp_backwardData(AdjOf(n), ValOf(n)))

(***************************************************************************)
(* SoftmaxNodeOp (without a mask) and LogSoftmaxNodeOp                     *)
(***************************************************************************)
SoftmaxNodeOp_forwardOps(n) ==
  /\ CanForward(n, "softmax")
  /\ \E x \in ChildVal(n) : ForwardAssign(n, SoftmaxData(x, nodes[n].shape))

SoftmaxNodeOp_backwardOps(n) ==
  /\ CanBackward(n, "softmax")
  /\ BackwardAccumulate(n, SoftmaxGradData(AdjOf(n), ValOf(n), nodes[n].shape))

LogSoftmaxNodeOp_forwardOps(n) ==
  /\ CanForward(n, "logsoftmax")
  /\ \E x \in ChildVal(n) : ForwardAssign(n, LogSoftmaxData(x, nodes[n].shape))

LogSoftmaxNodeOp_backwardOps(n) ==
  /\ CanBackward(n, "logsoftmax")
  /\ BackwardAccumulate(n,
        LogSoftmaxGradData(AdjOf(n), ValOf(n), nodes[n].shape))

(***************************************************************************)
(* SumNodeOp and MeanNodeOp                                                *)
(***************************************************************************)
\* mutant: with no axis named, axis 3 keeps its size
SumNodeOp_newShape_keepsAxis3(shape, ax) ==
  IF ax # -1
  THEN ShapeSet(shape, ax, 1)
  ELSE ShapeSet(ShapeSet(ShapeSet(shape, 0, 1), 1, 1), 2, 1)

\* newShape(a, args...): ax is the axis keyword, -1 when none is given
SumNodeOp_newShape(shape, ax) ==
  IF ax # -1
  THEN ShapeSet(shape, ax, 1)
  ELSE ShapeSet(ShapeSet(ShapeSet(ShapeSet(shape, 0, 1), 1, 1), 2, 1), 3, 1)

SumNodeOp(ns, n, a, ax) ==
  [OwningNode(n, "sum", a, SumNodeOp_newShape(ns[a].shape, ax)) EXCEPT !.axis = ax]

\* Reduce(_1, val_, child value)
SumNodeOp_forwardData(x, cs, s) == ReduceData(x, cs, s)

\* Add(_1, child grad, adj_)
SumNodeOp_backwardData(adj, s, cs) == AddData(adj, s, cs)

SumNodeOp_forwardOps(n) ==
  /\ CanForward(n, "sum")
  /\ \E x \in ChildVal(n) : ForwardAssign(n,
        SumNodeOp_forwardData(x, nodes[nodes[n].child].shape, nodes[n].shape))

SumNodeOp_backwardOps(n) ==
  /\ CanBackward(n, "sum")
  /\ BackwardAccumulate(n,
        SumNodeOp_backwardData(AdjOf(n), nodes[n].shape, nodes[nodes[n].child].shape))

MeanNodeOp_newShape(shape, ax) ==
  IF ax # -1
  THEN ShapeSet(shape, ax, 1)
  ELSE ShapeSet(ShapeSet(ShapeSet(ShapeSet(shape, 0, 1), 1, 1), 2, 1), 3, 1)

MeanNodeOp(ns, n, a, ax) ==
  [OwningNode(n, "mean", a, MeanNodeOp_newShape(ns[a].shape, ax)) EXCEPT !.axis = ax]

\* mutant: the count is the child's element count, whatever the result's
MeanNodeOp_left_childOnly(cs, s) == Elements(cs)

\* int left = children_[0]->shape().elements() / val_->shape().elements()
MeanNodeOp_left(cs, s) == Elements(cs) \div Elements(s)

\* float scale = 1.f / left
MeanNodeOp_scale(cs, s) == RInv(Num(MeanNodeOp_left(cs, s)))

\* Reduce(_1 * scale, val_, child value)
MeanNodeOp_forwardData(x, cs, s) ==
  ReduceData([i \in 1..Len(x) |-> RMul(x[i], MeanNodeOp_scale(cs, s))], cs, s)

\* Add(_1 * scale, child grad, adj_)
MeanNodeOp_backwardData(adj, s, cs) ==
  AddData([i \in 1..Len(adj) |-> RMul(adj[i], MeanNodeOp_scale(cs, s))], s, cs)

MeanNodeOp_forwardOps(n) ==
  /\ CanForward(n, "mean")
  /\ \E x \in ChildVal(n) : ForwardAssign(n,
        MeanNodeOp_forwardData(x, nodes[nodes[n].child].shape, nodes[n].shape))

MeanNodeOp_backwardOps(n) ==
  /\ CanBackward(n, "mean")
  /\ BackwardAccumulate(n,
        MeanNodeOp_backwardData(AdjOf(n), nodes[n].shape, nodes[nodes[n].child].shape))

(***************************************************************************)
(* RowsNodeOp (the child is a matrix: axes 2 and 3 have size 1)            *)
(***************************************************************************)
RowsNodeOp_newShape(shape, indeces) == ShapeSet(shape, 0, Len(indeces))

\* the constructor copies the index list to the device unchecked
RowsNodeOp(ns, n, a, indeces) ==
  [OwningNode(n, "rows", a, RowsNodeOp_newShape(ns[a].shape, indeces))
     EXCEPT !.indeces_ = indeces]

\* CopyRows(val_, child value, indeces_)
RowsNodeOp_forwardOps(n) ==
  /\ CanForward(n, "rows")
  /\ LET c == nodes[n].child
         x == Read(store, Val(nodes, c))
     IN  \E g \in Garbage :
           /\ store' = Assign(store, nodes[n].val_,
                              CopyRowsData(x, nodes[c].shape, nodes[n].indeces_, g))
           /\ nodes' = [AfterVal(nodes, c) EXCEPT ![n].pc = "valued"]
  /\ err' = err
  /\ hist' = Step("forward", n)

\* mutant: a row named several times receives only the last of its
\* adjoint rows
RowsNodeOp_backwardData_lastWins(adj, cs, indeces) ==
  [e \in 1..(cs[1] * cs[2]) |->
     LET named == {i \in 1..Len(indeces) : indeces[i] = RowOf(e - 1, cs)}
     IN  IF named = {} THEN Zero
         ELSE LET i == CHOOSE i \in named : \A k \in named : k <= i
              IN  adj[(i - 1) * cs[2] + ColOf(e - 1, cs) + 1]]

\* PasteRows(child grad, adj_, indeces_)
RowsNodeOp_backwardData(adj, cs, indeces) == PasteRowsData(adj, cs, indeces)

RowsNodeOp_backwardOps(n) ==
  /\ CanBackward(n, "rows")
  /\ BackwardAccumulate(n,
        RowsNodeOp_backwardData(AdjOf(n), nodes[nodes[n].child].shape, nodes[n].indeces_))

(***************************************************************************)
(* TransposeNodeOp                                                         *)
(***************************************************************************)
TransposeNodeOp_newShape(shape) ==
  LET temp == shape[1]
  IN  ShapeSet(ShapeSet(shape, 0, shape[2]), 1, temp)

TransposeNodeOp(ns, n, a) ==
  OwningNode(n, "transpose", a, TransposeNodeOp_newShape(ns[a].shape))

\* Transpose(handle, val_, child value)
TransposeNodeOp_forwardOps(n) ==
  /\ CanForward(n, "transpose")
  /\ \E x \in ChildVal(n) : ForwardAssign(n,
        TransposeData(x, nodes[nodes[n].child].shape))

\* Transpose(handle, child grad, adj_): the kernel of the forward step,
\* with the child's gradient as its output
TransposeNodeOp_backwardOps(n) ==
  /\ CanBackward(n, "transpose")
  /\ BackwardAssign(n, TransposeData(AdjOf(n), nodes[n].shape))

(***************************************************************************)
(* DropoutNodeOp.  hist.prepared and hist.destroyed count the calls of     *)
(* CudnnDropoutPrepare and CudnnDropoutDestroy; space_ holds the mask of   *)
(* the last forward, and is <<>> while nothing was prepared.               *)
(***************************************************************************)
DropoutNodeOp(ns, n, a) ==
  [UnaryNodeOp(ns, n, "dropout", a) EXCEPT !.allocated_ = FALSE]

\* mutant: the state is prepared by every forward
DropoutNodeOp_prepares_always(nd) == TRUE

\* if(!allocated_) { CudnnDropoutPrepare(...); allocated_ = true; }
DropoutNodeOp_prepares(nd) == ~nd.allocated_

DropoutNodeOp_forward(n) ==
  LET c == nodes[n].child
      x == Read(store, Val(nodes, c))
  IN  \E mask \in Masks(Len(x)) :
        /\ store' = Assign(store, nodes[n].val_, DropoutForwardData(x, mask))
        /\ nodes' = [nodes EXCEPT ![n].allocated_ = TRUE,
                                  ![n].space_ = mask,
                                  ![n].pc = "valued"]
        /\ err' = err
        /\ hist' = [Step("forward", n) EXCEPT
                      !.prepared = IF DropoutNodeOp_prepares(nodes[n])
                                   THEN @ + 1 ELSE @,
                      !.forwards = @ + 1,
                      !.calls = @ + 1]

\* Element(_1 = _2, val_, child value)
DropoutNodeOp_inference(n) ==
  LET c == nodes[n].child
      x == Read(store, Val(nodes, c))
  IN  /\ store' = Assign(store, nodes[n].val_, x)
      /\ nodes' = [nodes EXCEPT ![n].pc = "valued"]
      /\ err' = err
      /\ hist' = [Step("inference", n) EXCEPT !.calls = @ + 1]

\* if(children_[0]->trainable()) CudnnDropoutBackward(..., child grad, adj_);
\* without a prepared state the descriptor is uninitialised and any mask
\* may come out
DropoutNodeOp_backward(n) ==
  LET c == nodes[n].child
      adj == Read(store, nodes[n].adj_)
  IN  /\ \E mask \in (IF nodes[n].allocated_ THEN {nodes[n].space_}
                      ELSE Masks(Len(adj))) :
            store' = IF nodes[c].trainable
                     THEN Accumulate(store, Grad(nodes, c),
                                     DropoutBackwardData(adj, mask))
                     ELSE store
      /\ nodes' = [nodes EXCEPT ![n].pc = "done"]
      /\ err' = err
      /\ hist' = [Step("backward", n) EXCEPT !.calls = @ + 1]

\* ~DropoutNodeOp(): if(allocated_) CudnnDropoutDestroy(...)
DropoutNodeOp_destroys(nd) == nd.allocated_

DropoutNodeOp_destructor(n) ==
  /\ nodes' = [nodes EXCEPT ![n].pc = "released"]
  /\ hist' = [Step("destroy", n) EXCEPT
                !.destroyed = IF DropoutNodeOp_destroys(nodes[n]) THEN @ + 1 ELSE @]
  /\ UNCHANGED <<store, err>>

(***************************************************************************)
(* ReshapeNodeOp and TimestepNodeOp: nodes without storage of their own    *)
(***************************************************************************)
ViewNode(kind, a, shape) ==
  [NoNode EXCEPT !.kind = kind, !.child = a, !.shape = shape, !.pc = "constructed"]

\* ReshapeNodeOp(a, shape): the shape keyword is the caller's shape
ReshapeNodeOp(ns, a, shape) == ViewNode("reshape", a, shape)

TimestepNodeOp_newShape(shape) == ShapeSet(ShapeSet(shape, 2, 1), 3, 1)

TimestepNodeOp(ns, a, step) ==
  [ViewNode("step", a, TimestepNodeOp_newShape(ns[a].shape)) EXCEPT !.step_ = step]

\* size_t allocate() { return 0; }
ReshapeNodeOp_allocate == 0

TimestepNodeOp_allocate == 0

(***************************************************************************)
(* Construction and the graph's memory.  Node::allocate() (graph/node.h)   *)
(* reserves one element per element of the shape; the view nodes override  *)
(* it.  A node's gradient buffer starts at zero, a root's at the adjoint   *)
(* the driver seeds it with.                                               *)
(***************************************************************************)
Allocate(nd) ==
  IF nd.kind = "reshape" THEN ReshapeNodeOp_allocate
  ELSE IF nd.kind = "step" THEN TimestepNodeOp_allocate
  ELSE Elements(nd.shape)

Ones(n) == Filled(n, One)

Zeros(n) == Filled(n, Zero)

Ramp(n) == [i \in 1..n |-> Num(i)]

\* the adjoints a node of n elements is handed
Adjoints(n) == {Ones(n), Ramp(n)}

NoHist ==
  [op |-> "init", node |-> 0, prepared |-> 0, destroyed |-> 0, calls |-> 0,
   forwards |-> 0, grad0 |-> <<>>, seen |-> <<>>, alloc |-> [n \in NodeIds |-> -1]]

\* memory after node n was constructed as nd and given gradient adj
StoreWith(st, n, nd, adj) ==
  IF Allocate(nd) = 0 THEN st
  ELSE [st EXCEPT ![ValBuf(n)] = Buffer(Zeros(Allocate(nd))),
                  ![AdjBuf(n)] = Buffer(adj)]

\* the step that constructs node n as nd
Construct(n, nd, adj) ==
  /\ err = "none"
  /\ nodes[n].kind = "none"
  /\ nodes' = [nodes EXCEPT ![n] = nd]
  /\ store' = StoreWith(store, n, nd, adj)
  /\ hist' = [Step("construct", n) EXCEPT !.alloc[n] = Allocate(nd)]
  /\ err' = err

\* a leaf (a parameter or an input) of shape s holding x, valued, with
\* gradient g
Leaf(s) == [OwningNode(0, "param", 0, s) EXCEPT !.pc = "valued"]

LeafNodes(s, tr) ==
  [n \in NodeIds |-> IF n = 0 THEN [Leaf(s) EXCEPT !.trainable = tr] ELSE NoNode]

\* the state after the graph ns was built over a leaf holding x with
\* gradient g, nodes 1 and 2 (where they exist) having gradients adj1, adj2
Built(ns, x, g, adj1, adj2) ==
  /\ nodes = ns
  /\ store = StoreWith(
               StoreWith([b \in BufIds |-> IF b = ValBuf(0) THEN Buffer(x)
                                           ELSE IF b = AdjBuf(0) THEN Buffer(g)
                                           ELSE NoBuffer],
                         1, ns[1], adj1),
               2, ns[2], adj2)
  /\ err = "none"
  /\ hist = [NoHist EXCEPT !.grad0 = g,
                           !.alloc = [n \in NodeIds |->
                                        IF ns[n].kind = "none" THEN -1
                                        ELSE Allocate(ns[n])]]

LeafOnly(s, x, g, tr) == Built(LeafNodes(s, tr), x, g, <<>>, <<>>)

\* matrices and four-axis shapes of at most MaxElems elements
Dims == 1..MaxElems

Shapes2 == {s \in Dims \X Dims \X {1} \X {1} : Elements(s) <= MaxElems}

Shapes4 == {s \in Dims \X Dims \X Dims \X Dims : Elements(s) <= MaxElems}

Axes == {-1, 0, 1, 2, 3}

LeafShape == nodes[0].shape

LeafVal == Read(store, nodes[0].val_)

LeafGrad == Read(store, nodes[0].adj_)

\* the values a leaf element is drawn from
XVals == {Num(-1), Zero, Num(2)}

RECURSIVE RSumOver(_, _)
\* the sum of d[e] over the elements e of S
RSumOver(S, d) ==
  IF S = {} THEN Zero
  ELSE LET e == CHOOSE e \in S : TRUE
       IN  RAdd(d[e], RSumOver(S \ {e}, d))

(***************************************************************************)
(* Reductions: a leaf and one Sum or Mean node over it.                    *)
(***************************************************************************)
InitReduce ==
  \E s \in Shapes4 : \E x \in [1..Elements(s) -> XVals] :
    LeafOnly(s, x, Zeros(Elements(s)), TRUE)

ConstructSum ==
  \E ax \in Axes :
    \E adj \in Adjoints(Elements(SumNodeOp_newShape(LeafShape, ax))) :
      Construct(1, SumNodeOp(nodes, 1, 0, ax), adj)

ConstructMean ==
  \E ax \in Axes :
    \E adj \in Adjoints(Elements(MeanNodeOp_newShape(LeafShape, ax))) :
      Construct(1, MeanNodeOp(nodes, 1, 0, ax), adj)

NextReduce ==
  \/ ConstructSum
  \/ ConstructMean
  \/ SumNodeOp_forwardOps(1)
  \/ SumNodeOp_backwardOps(1)
  \/ MeanNodeOp_forwardOps(1)
  \/ MeanNodeOp_backwardOps(1)

SpecReduce == InitReduce /\ [][NextReduce]_vars

\* axis a (from 1) of node n is reduced
Reduced(n, a) == nodes[n].axis = -1 \/ a = nodes[n].axis + 1

\* the elements of the child that are reduced into element o of node n
Members(n, o) ==
  LET cs == nodes[nodes[n].child].shape
  IN  {e \in 1..Elements(cs) :
         \A a \in 1..4 :
           Reduced(n, a) \/ Coord(e - 1, cs)[a] = Coord(o - 1, nodes[n].shape)[a]}

\* the element of node n that element e of the child is reduced into
Target(n, e) == CHOOSE o \in 1..Elements(nodes[n].shape) : e \in Members(n, o)

\* C6: the shape of a Sum or Mean node is the child's shape with the named
\* axis set to 1, and (1,1,1,1) when no axis is named.
C6_ReducedShape ==
  \A n \in NodeIds :
    nodes[n].kind \in {"sum", "mean"} =>
      \A a \in 1..4 :
        nodes[n].shape[a] =
          IF Reduced(n, a) THEN 1 ELSE nodes[nodes[n].child].shape[a]

C6_Witness ==
  /\ nodes[1].kind = "sum"
  /\ nodes[1].axis = 1
  /\ LeafShape = <<2, 2, 1, 1>>
  /\ nodes[1].shape = <<2, 1, 1, 1>>

\* C7: a Mean node's count, child elements / result elements, divides
\* exactly; forward gives sum(x) / count over the reduced axes and backward
\* adds adj / count, broadcast, to the child's gradient (zero before).
C7_MeanCount ==
  \A n \in NodeIds :
    nodes[n].kind = "mean" =>
      LET cs == nodes[nodes[n].child].shape
          sh == nodes[n].shape
          count == IF nodes[n].axis = -1 THEN Elements(cs)
                   ELSE cs[nodes[n].axis + 1]
          x == Read(store, nodes[nodes[n].child].val_)
          adj == Read(store, nodes[n].adj_)
          val == Read(store, nodes[n].val_)
          grad == Read(store, nodes[nodes[n].child].adj_)
      IN  /\ MeanNodeOp_left(cs, sh) = count
          /\ count * Elements(sh) = Elements(cs)
          /\ nodes[n].pc \in {"valued", "done"} =>
               \A o \in 1..Elements(sh) :
                 val[o] = RDiv(RSumOver(Members(n, o), x), Num(count))
          /\ nodes[n].pc = "done" =>
               \A e \in 1..Elements(cs) :
                 grad[e] = RDiv(adj[Target(n, e)], Num(count))

C7_Witness ==
  /\ nodes[1].kind = "mean"
  /\ nodes[1].axis = 0
  /\ nodes[1].pc = "done"
  /\ LeafShape = <<2, 2, 1, 1>>
  /\ LeafVal = <<Num(-1), Num(2), Num(2), Num(2)>>
  /\ Read(store, nodes[1].val_) = <<Rat(1, 2), Num(2)>>
  /\ Read(store, nodes[1].adj_) = <<One, Num(2)>>
  /\ LeafGrad = <<Rat(1, 2), One, Rat(1, 2), One>>

(***************************************************************************)
(* A chain: a matrix, ReLU over it, Sum over axis 1 of the ReLU node, the  *)
(* Sum node being the root the driver seeds with an all-ones adjoint.      *)
(***************************************************************************)
ChainDims == 1..MaxChainElems

ChainShapes ==
  {s \in ChainDims \X ChainDims \X {1} \X {1} : Elements(s) <= MaxChainElems}

\* sum(relu(a), axis=1)
ChainNodes(s) ==
  LET ns1 == [LeafNodes(s, TRUE) EXCEPT ![1] = UnaryNodeOp(LeafNodes(s, TRUE), 1, "ReLU", 0)]
  IN  [ns1 EXCEPT ![2] = SumNodeOp(ns1, 2, 1, 1)]

InitChain ==
  \E s \in ChainShapes : \E x \in [1..Elements(s) -> XVals] :
    Built(ChainNodes(s), x, Zeros(Elements(s)), Zeros(Elements(s)),
          Ones(Elements(SumNodeOp_newShape(s, 1))))

NextChain ==
  \/ ReLUNodeOp_forwardOps(1)
  \/ SumNodeOp_forwardOps(2)
  \/ SumNodeOp_backwardOps(2)
  \/ ReLUNodeOp_backwardOps(1)

SpecChain == InitChain /\ [][NextChain]_vars

\* entry (r, j) of the leaf matrix, rows and columns from 0
LeafAt(d, r, j) == d[r * LeafShape[2] + j + 1]

\* C9: for a matrix through ReLU and then Sum over axis 1, forward gives
\* per row the sum of the row's positive entries, and backward from an
\* all-ones adjoint leaves the input's gradient at 1 where the input is > 0
\* and at 0 where it is <= 0.
C9_ReLUSum ==
  (nodes[1].kind = "ReLU" /\ nodes[2].kind = "sum") =>
    /\ nodes[2].pc \in {"valued", "done"} =>
         /\ nodes[2].shape = <<LeafShape[1], 1, 1, 1>>
         /\ \A r \in 0..(LeafShape[1] - 1) :
              Read(store, nodes[2].val_)[r + 1] =
                RSumOver({j \in 0..(LeafShape[2] - 1) : LeafAt(LeafVal, r, j)[1] > 0},
                         [j \in 0..(LeafShape[2] - 1) |-> LeafAt(LeafVal, r, j)])
    /\ nodes[1].pc = "done" =>
         \A e \in 1..Elements(LeafShape) :
           LeafGrad[e] = IF LeafVal[e][1] > 0 THEN One ELSE Zero

C9_Witness ==
  /\ nodes[1].pc = "done"
  /\ nodes[2].pc = "done"
  /\ LeafShape = <<2, 3, 1, 1>>
  /\ LeafVal = <<Num(2), Num(-1), Num(2), Zero, Num(-1), Num(2)>>
  /\ Read(store, nodes[2].val_) = <<Num(4), Num(2)>>
  /\ LeafGrad = <<One, Zero, One, Zero, Zero, One>>

(***************************************************************************)
(* A child that feeds two parents: a matrix and two operator nodes over    *)
(* it, both roots that the driver seeds with an all-ones adjoint.          *)
(***************************************************************************)
DagDims == 1..MaxDagElems

DagShapes == {s \in DagDims \X DagDims \X {1} \X {1} : Elements(s) <= MaxDagElems}

IndexLists(rows) ==
  UNION {[1..k -> 0..(rows - 1)] : k \in 1..MaxIdxLen}

Elementwise ==
  {"logit", "tanh", "ReLU", "log", "exp", "-", "softmax", "logsoftmax",
   "transpose", "dropout"}

\* the operator applications over a child of shape s
Variants(s) ==
  {[kind |-> k, axis |-> -1, indeces |-> <<>>] : k \in Elementwise}
  \cup {[kind |-> k, axis |-> ax, indeces |-> <<>>] :
          k \in {"sum", "mean"}, ax \in {-1, 0, 1}}
  \cup {[kind |-> "rows", axis |-> -1, indeces |-> idx] : idx \in IndexLists(s[1])}

\* the node that application v over child a is constructed as
MakeNode(ns, n, a, v) ==
  CASE v.kind = "sum" -> SumNodeOp(ns, n, a, v.axis)
    [] v.kind = "mean" -> MeanNodeOp(ns, n, a, v.axis)
    [] v.kind = "rows" -> RowsNodeOp(ns, n, a, v.indeces)
    [] v.kind = "transpose" -> TransposeNodeOp(ns, n, a)
    [] v.kind = "dropout" -> DropoutNodeOp(ns, n, a)
    [] OTHER -> UnaryNodeOp(ns, n, v.kind, a)

DagNodes(s, v1, v2) ==
  LET ns0 == LeafNodes(s, TRUE)
  IN  [ns0 EXCEPT ![1] = MakeNode(ns0, 1, 0, v1), ![2] = MakeNode(ns0, 2, 0, v2)]

InitDag ==
  \E s \in DagShapes : \E x \in [1..Elements(s) -> XVals] :
    \E v1 \in Variants(s), v2 \in Variants(s) :
      LET ns == DagNodes(s, v1, v2)
      IN  Built(ns, x, Zeros(Elements(s)),
                Ones(Elements(ns[1].shape)), Ones(Elements(ns[2].shape)))

\* Node::forward() and Node::backward() of a dropout node, as the driver
\* calls them in a training pass
DropoutForward(n) == CanForward(n, "dropout") /\ DropoutNodeOp_forward(n)

DropoutBackward(n) == CanBackward(n, "dropout") /\ DropoutNodeOp_backward(n)

NextDag ==
  \E n \in {1, 2} :
    \/ LogitNodeOp_forwardOps(n)
    \/ LogitNodeOp_backwardOps(n)
    \/ TanhNodeOp_forwardOps(n)
    \/ TanhNodeOp_backwardOps(n)
    \/ ReLUNodeOp_forwardOps(n)
    \/ ReLUNodeOp_backwardOps(n)
    \/ LogNodeOp_forwardOps(n)
    \/ LogNodeOp_backwardOps(n)
    \/ ExpNodeOp_forwardOps(n)
    \/ ExpNodeOp_backwardOps(n)
    \/ NegNodeOp_forwardOps(n)
    \/ NegNodeOp_backwardOps(n)
    \/ SoftmaxNodeOp_forwardOps(n)
    \/ SoftmaxNodeOp_backwardOps(n)
    \/ LogSoftmaxNodeOp_forwardOps(n)
    \/ LogSoftmaxNodeOp_backwardOps(n)
    \/ SumNodeOp_forwardOps(n)
    \/ SumNodeOp_backwardOps(n)
    \/ MeanNodeOp_forwardOps(n)
    \/ MeanNodeOp_backwardOps(n)
    \/ RowsNodeOp_forwardOps(n)
    \/ RowsNodeOp_backwardOps(n)
    \/ TransposeNodeOp_forwardOps(n)
    \/ TransposeNodeOp_backwardOps(n)
    \/ DropoutForward(n)
    \/ DropoutBackward(n)

SpecDag == InitDag /\ [][NextDag]_vars

\* what parent p is to add to its child's gradient, by operator
Contribution(p) ==
  LET nd == nodes[p]
      cs == nodes[nd.child].shape
      adj == Read(store, nd.adj_)
      val == Read(store, nd.val_)
      x == Read(store, nodes[nd.child].val_)
  IN  CASE nd.kind = "logit" -> LogitNodeOp_backwardData(adj, val)
        [] nd.kind = "tanh" -> TanhNodeOp_backwardData(adj, val)
        [] nd.kind = "ReLU" -> ReLUNodeOp_backwardData(adj, x)
        [] nd.kind = "log" -> LogNodeOp_backwardData(adj, x)
        [] nd.kind = "exp" -> ExpNodeOp_backwardData(adj, x)
        [] nd.kind = "-" -> NegNodeOp_backwardData(adj, val)
        [] nd.kind = "softmax" -> SoftmaxGradData(adj, val, nd.shape)
        [] nd.kind = "logsoftmax" -> LogSoftmaxGradData(adj, val, nd.shape)
        [] nd.kind = "sum" -> SumNodeOp_backwardData(adj, nd.shape, cs)
        [] nd.kind = "mean" -> MeanNodeOp_backwardData(adj, nd.shape, cs)
        [] nd.kind = "rows" -> RowsNodeOp_backwardData(adj, cs, nd.indeces_)
        [] nd.kind = "transpose" -> TransposeData(adj, nd.shape)
        [] nd.kind = "dropout" -> DropoutBackwardData(adj, nd.space_)

\* C1: whatever the two operators, once both parents' backward steps have
\* run (in either order) the child's gradient is its initial value plus
\* both parents' contributions.
C1_BackwardAccumulates ==
  (nodes[1].pc = "done" /\ nodes[2].pc = "done") =>
    LeafGrad = [e \in 1..Elements(LeafShape) |->
                  RAdd(hist.grad0[e], RAdd(Contribution(1)[e], Contribution(2)[e]))]

\* the same for every pair of operators that has no Transpose in it
C1_AccumulatesButTranspose ==
  (nodes[1].kind # "transpose" /\ nodes[2].kind # "transpose") =>
    C1_BackwardAccumulates

(***************************************************************************)
(* Row gather: a matrix and one Rows node over it, built from an index     *)
(* list the caller passes.                                                 *)
(***************************************************************************)
\* the index lists a caller passes: MaxElems names a row no matrix has
CallerIndexLists == UNION {[1..k -> 0..MaxElems] : k \in 1..MaxIdxLen}

InitRows ==
  \E s \in Shapes2 :
    \E g \in {Zeros(Elements(s)), Ones(Elements(s))} :
      LeafOnly(s, Ramp(Elements(s)), g, TRUE)

ConstructRows ==
  \E idx \in CallerIndexLists :
    \E adj \in Adjoints(Elements(RowsNodeOp_newShape(LeafShape, idx))) :
      Construct(1, RowsNodeOp(nodes, 1, 0, idx), adj)

\* a kernel that is handed a row outside its tensor may also end the
\* process with a device fault
RowsFault(n) ==
  /\ err = "none"
  /\ nodes[n].kind = "rows"
  /\ nodes[n].pc \in {"constructed", "valued"}
  /\ ~RowsInRange(nodes[n].indeces_, nodes[nodes[n].child].shape)
  /\ err' = "fault"
  /\ hist' = Step("fault", n)
  /\ UNCHANGED <<nodes, store>>

NextRows ==
  \/ ConstructRows
  \/ RowsNodeOp_forwardOps(1)
  \/ RowsNodeOp_backwardOps(1)
  \/ RowsFault(1)

SpecRows == InitRows /\ [][NextRows]_vars

\* C4: a Rows node with an index >= the child's row count does not get
\* through a forward step: the step fails with IndexOutOfRange.
C4_OutOfRangeRejected ==
  \A n \in NodeIds :
    (/\ nodes[n].kind = "rows"
     /\ ~RowsInRange(nodes[n].indeces_, nodes[nodes[n].child].shape)
     /\ hist.op = "forward" /\ hist.node = n)
      => err = "IndexOutOfRange"

\* C5: after a Rows node's backward step every row r of the child's
\* gradient has grown by the sum of the adjoint rows i with indeces[i] = r
\* (by nothing when no index names r).
C5_ScatterAdd ==
  \A n \in NodeIds :
    (nodes[n].kind = "rows" /\ nodes[n].pc = "done") =>
      LET cs == nodes[nodes[n].child].shape
          idx == nodes[n].indeces_
          adj == Read(store, nodes[n].adj_)
          grad == Read(store, nodes[nodes[n].child].adj_)
      IN  \A r \in 0..(cs[1] - 1), j \in 0..(cs[2] - 1) :
            grad[r * cs[2] + j + 1] =
              RAdd(hist.grad0[r * cs[2] + j + 1],
                   RSumOver({i \in 1..Len(idx) : idx[i] = r},
                            [i \in 1..Len(idx) |-> adj[(i - 1) * cs[2] + j + 1]]))

C5_Witness ==
  /\ nodes[1].kind = "rows"
  /\ nodes[1].pc = "done"
  /\ nodes[1].indeces_ = <<2, 2>>
  /\ LeafShape = <<3, 1, 1, 1>>
  /\ Read(store, nodes[1].adj_) = <<One, One>>
  /\ hist.grad0 = <<Zero, Zero, Zero>>
  /\ LeafGrad = <<Zero, Zero, Num(2)>>

(***************************************************************************)
(* Views: a four-axis leaf, a Reshape or Timestep node over it and a       *)
(* Negate node over the view, which reads the view's value in its forward  *)
(* step and accumulates into the view's gradient in its backward step.     *)
(* Meanwhile the leaf's value may be rewritten and its storage moved.      *)
(***************************************************************************)
InitView ==
  \E s \in Shapes4 : LeafOnly(s, Ramp(Elements(s)), Zeros(Elements(s)), TRUE)

\* reshape(a, shape), here into a matrix
ConstructReshape ==
  \E shape \in Shapes2 : Construct(1, ReshapeNodeOp(nodes, 0, shape), <<>>)

\* step(a, step)
ConstructTimestep ==
  \E step \in 0..MaxStep : Construct(1, TimestepNodeOp(nodes, 0, step), <<>>)

ConstructNeg ==
  /\ IsView(nodes[1])
  /\ Construct(2, UnaryNodeOp(nodes, 2, "-", 1), Ramp(Elements(nodes[1].shape)))

\* void forward() {}  and  void backward() {}
ReshapeNodeOp_forward(n) ==
  /\ CanForward(n, "reshape")
  /\ nodes' = [nodes EXCEPT ![n].pc = "valued"]
  /\ hist' = Step("forward", n)
  /\ UNCHANGED <<store, err>>

ReshapeNodeOp_backward(n) ==
  /\ CanBackward(n, "reshape")
  /\ nodes' = [nodes EXCEPT ![n].pc = "done"]
  /\ hist' = Step("backward", n)
  /\ UNCHANGED <<store, err>>

TimestepNodeOp_forward(n) ==
  /\ CanForward(n, "step")
  /\ nodes' = [nodes EXCEPT ![n].pc = "valued"]
  /\ hist' = Step("forward", n)
  /\ UNCHANGED <<store, err>>

TimestepNodeOp_backward(n) ==
  /\ CanBackward(n, "step")
  /\ nodes' = [nodes EXCEPT ![n].pc = "done"]
  /\ hist' = Step("backward", n)
  /\ UNCHANGED <<store, err>>

\* a caller reads the view's value: val(), then the elements
ReadView(n) ==
  /\ err = "none"
  /\ IsView(nodes[n])
  /\ nodes[n].pc \in {"valued", "done"}
  /\ \E d \in Reads(store, Val(nodes, n)) :
       hist' = [Step("read", n) EXCEPT !.seen = d]
  /\ nodes' = AfterVal(nodes, n)
  /\ UNCHANGED <<store, err>>

\* the leaf's value is rewritten in place (every element negated)
WriteChild ==
  /\ err = "none"
  /\ nodes[2].kind # "none"
  /\ store' = Assign(store, nodes[0].val_, [i \in 1..Len(LeafVal) |-> RNeg(LeafVal[i])])
  /\ hist' = Step("child", 0)
  /\ UNCHANGED <<nodes, err>>

OtherBlock(b) ==
  IF b = ValBuf(0) THEN 7 ELSE IF b = 7 THEN ValBuf(0)
  ELSE IF b = AdjBuf(0) THEN 8 ELSE AdjBuf(0)

\* the leaf's value and gradient move to other blocks; the old blocks are
\* released
ReallocChild ==
  /\ err = "none"
  /\ nodes[2].kind # "none"
  /\ LET v == nodes[0].val_.buf
         g == nodes[0].adj_.buf
     IN  /\ store' = [store EXCEPT ![OtherBlock(v)] = store[v],
                                   ![OtherBlock(g)] = store[g],
                                   ![v].live = FALSE,
                                   ![g].live = FALSE]
         /\ nodes' = [nodes EXCEPT ![0].val_.buf = OtherBlock(v),
                                   ![0].adj_.buf = OtherBlock(g)]
  /\ hist' = Step("child", 0)
  /\ err' = err

\* the next step of node n reads or writes through a view that reaches
\* outside its child's storage
TouchesOutside(n) ==
  \/ CanForward(n, "-") /\ ~InBounds(store, Val(nodes, nodes[n].child))
  \/ CanBackward(n, "-") /\ ~InBounds(store, Grad(nodes, nodes[n].child))

\* such a step may also end the process with a device fault
ViewFault(n) ==
  /\ err = "none"
  /\ TouchesOutside(n)
  /\ err' = "fault"
  /\ hist' = Step("fault", n)
  /\ UNCHANGED <<nodes, store>>

NextView ==
  \/ ConstructReshape
  \/ ConstructTimestep
  \/ ConstructNeg
  \/ ReshapeNodeOp_forward(1)
  \/ ReshapeNodeOp_backward(1)
  \/ TimestepNodeOp_forward(1)
  \/ TimestepNodeOp_backward(1)
  \/ NegNodeOp_forwardOps(2)
  \/ NegNodeOp_backwardOps(2)
  \/ ReadView(1)
  \/ WriteChild
  \/ ReallocChild
  \/ ViewFault(2)

SpecView == InitView /\ [][NextView]_vars

\* the element offset of view n in its child
ViewOffset(n) ==
  IF nodes[n].kind = "step" THEN nodes[n].step_ * Elements(nodes[n].shape) ELSE 0

\* C2: a view has no storage of its own; each access re-points val_ / adj_
\* at the child's current storage plus the view's offset, so that what is
\* read through the view is what the child holds now, and what is
\* accumulated through it arrives in the child's gradient at that offset,
\* wherever the child's storage is by then.
C2_ViewAliasesChild ==
  \A n \in NodeIds :
    IsView(nodes[n]) =>
      LET c == nodes[n].child
          cs == nodes[c].shape
          off == ViewOffset(n)
          inChild(i) == off + i <= Elements(cs)
      IN  /\ hist.alloc[n] = 0
          /\ ~store[ValBuf(n)].live /\ ~store[AdjBuf(n)].live
          /\ (hist.op = "read" /\ hist.node = n) =>
               /\ nodes[n].val_ =
                    TensorGPU(nodes[c].val_.buf, nodes[c].val_.off + off, nodes[n].shape)
               /\ \A i \in 1..Elements(nodes[n].shape) :
                    inChild(i) => hist.seen[i] = Read(store, nodes[c].val_)[off + i]
          /\ (hist.op = "forward" /\ hist.node \in Parents(nodes, n)) =>
               /\ nodes[n].val_ =
                    TensorGPU(nodes[c].val_.buf, nodes[c].val_.off + off, nodes[n].shape)
               /\ \A i \in 1..Elements(nodes[n].shape) :
                    inChild(i) =>
                      Read(store, nodes[hist.node].val_)[i] =
                        RNeg(Read(store, nodes[c].val_)[off + i])
          /\ (hist.op = "backward" /\ hist.node \in Parents(nodes, n)) =>
               /\ nodes[n].adj_ =
                    TensorGPU(nodes[c].adj_.buf, nodes[c].adj_.off + off, nodes[n].shape)
               /\ \A e \in 1..Elements(cs) :
                    Read(store, nodes[c].adj_)[e] =
                      IF e > off /\ e - off <= Elements(nodes[n].shape)
                      THEN RAdd(hist.grad0[e],
                                RNeg(Read(store, nodes[hist.node].adj_)[e - off]))
                      ELSE hist.grad0[e]

C2_Witness ==
  /\ nodes[1].kind = "step"
  /\ nodes[1].step_ = 1
  /\ LeafShape = <<1, 2, 2, 1>>
  /\ hist.op = "backward" /\ hist.node = 2
  /\ nodes[0].adj_.buf = 8
  /\ nodes[1].adj_ = TensorGPU(8, 2, <<1, 2, 1, 1>>)
  /\ LeafGrad = <<Zero, Zero, Num(-1), Num(-2)>>

\* C3: no Reshape node exists whose element count differs from its
\* child's: constructing one fails with ShapeMismatch.
C3_ReshapeMismatchRejected ==
  \A n \in NodeIds :
    nodes[n].kind = "reshape" =>
      Elements(nodes[n].shape) = Elements(nodes[nodes[n].child].shape)

\* C10: the elements a Timestep view exposes lie inside its child's storage.
C10_TimestepInsideChild ==
  \A n \in NodeIds :
    nodes[n].kind = "step" =>
      nodes[n].step_ * Elements(nodes[n].shape) + Elements(nodes[n].shape)
        <= Elements(nodes[nodes[n].child].shape)

(***************************************************************************)
(* Dropout: a matrix and one Dropout node over it, whose forward(),        *)
(* inference() and backward() are called in any order until the node is    *)
(* destroyed.                                                              *)
(***************************************************************************)
InitDropout ==
  \E s \in DagShapes : \E x \in Adjoints(Elements(s)), tr \in BOOLEAN :
    LeafOnly(s, x, Zeros(Elements(s)), tr)

ConstructDropout ==
  Construct(1, DropoutNodeOp(nodes, 1, 0), Ones(Elements(LeafShape)))

\* the node is alive and may be called once more
Callable(n) ==
  /\ err = "none"
  /\ nodes[n].kind = "dropout"
  /\ nodes[n].pc \in {"constructed", "valued", "done"}
  /\ hist.calls < MaxCalls

CallForward(n) == Callable(n) /\ DropoutNodeOp_forward(n)

CallInference(n) == Callable(n) /\ DropoutNodeOp_inference(n)

CallBackward(n) == Callable(n) /\ DropoutNodeOp_backward(n)

Destroy(n) ==
  /\ err = "none"
  /\ nodes[n].kind = "dropout"
  /\ nodes[n].pc \in {"constructed", "valued", "done"}
  /\ DropoutNodeOp_destructor(n)

NextDropout ==
  \/ ConstructDropout
  \/ CallForward(1)
  \/ CallInference(1)
  \/ CallBackward(1)
  \/ Destroy(1)

SpecDropout == InitDropout /\ [][NextDropout]_vars

\* C8: a Dropout node's state is prepared exactly once, by the first
\* forward(): not by the constructor, not again by later forward() calls
\* and never by inference(), which copies the child's value; the destructor
\* releases the state exactly when it was prepared.
C8_DropoutStateLifecycle ==
  \A n \in NodeIds :
    nodes[n].kind = "dropout" =>
      /\ hist.prepared = (IF hist.forwards > 0 THEN 1 ELSE 0)
      /\ nodes[n].allocated_ = (hist.forwards > 0)
      /\ (hist.op = "inference" /\ hist.node = n) =>
           Read(store, nodes[n].val_) = Read(store, nodes[nodes[n].child].val_)
      /\ hist.destroyed = (IF nodes[n].pc = "released" THEN hist.prepared ELSE 0)

C8_Witness ==
  /\ nodes[1].kind = "dropout"
  /\ nodes[1].pc = "released"
  /\ hist.forwards = 2
  /\ hist.calls = 3
  /\ hist.prepared = 1
  /\ hist.destroyed = 1

=============================================================================
